---- MODULE Spec2Model ----
(***************************************************************************)
(* Cart and checkout logic of the e-commerce API (src/main.py).            *)
(*                                                                         *)
(* The state is the module-level dictionaries of main.py and the request   *)
(* last served together with its response.  Unit prices are floats in the  *)
(* source; they are counted here in hundredths (699.99 is 69999), so that  *)
(* products and sums are exact.  A password is stored by register_user and *)
(* read only by login_user, which no property below involves; the login    *)
(* and catalog-listing handlers read state and change none, and are left   *)
(* out.                                                                    *)
(*                                                                         *)
(* The handlers are plain functions, which the framework runs on a pool of *)
(* worker threads.  Spec and SpecCatalog serve one call at a time;         *)
(* SpecThreads runs add_to_cart on several worker threads, one statement   *)
(* at a time, and threads holds each worker's position and locals.         *)
(***************************************************************************)
EXTENDS Integers, Sequences, FiniteSets, TLC

VARIABLES products_db, orders_db, carts_db, users_db, next_user_id,
          request, response, threads

vars == <<products_db, orders_db, carts_db, users_db, next_user_id,
          request, response, threads>>

(***************************************************************************)
(* Bounds of the model.                                                    *)
(***************************************************************************)
\* largest quantity a request asks for (the smallest is MinQuantity)
MaxQuantity == 2
\* largest quantity a line item is allowed to accumulate in the model
MaxCartQuantity == 2
\* largest stock figure the external catalog owner sets
MaxStock == 1
\* the unit price (in hundredths) the external catalog owner re-prices to
SalePrice == 100
\* worker threads serving add_to_cart at the same time, one call each
NumThreads == 3

Threads == 1..NumThreads

MinQuantity == 0 - 1

Quantities == MinQuantity..MaxQuantity

Usernames == {"ama", "kofi"}
Emails == {"ama@example.com", "kofi@example.com"}
Passwords == {"secret"}

\* identifiers requests name; each is unknown until a registration takes it
UserIds == 1..Cardinality(Usernames)

\* product identifiers requests name: 1 and 6 are seeded, 7 is not
ProductIds == {1, 6, 7}

(***************************************************************************)
(* HTTP status codes the handlers answer with.                             *)
(***************************************************************************)
HTTP_200_OK == 200
HTTP_201_CREATED == 201
HTTP_400_BAD_REQUEST == 400
HTTP_404_NOT_FOUND == 404

(***************************************************************************)
(* Records.                                                                *)
(***************************************************************************)
Product(price, stock) == [price |-> price, stock |-> stock]

ProductInOrder(product_id, quantity) ==
    [product_id |-> product_id, quantity |-> quantity]

NoUser == [id |-> 0, username |-> "", email |-> ""]

User(id, username, email) == [id |-> id, username |-> username, email |-> email]

Request(op, user_id, product_id, quantity, username, email) ==
    [op |-> op, user_id |-> user_id, product_id |-> product_id,
     quantity |-> quantity, username |-> username, email |-> email]

Response(status, detail, user, cart_items, total_price) ==
    [status |-> status, detail |-> detail, user |-> user,
     cart_items |-> cart_items, total_price |-> total_price]

HTTPException(status, detail) == Response(status, detail, NoUser, <<>>, 0)

\* the sample catalog: unit price in hundredths, stock count
SampleProducts ==
    (1 :> Product(69999, 15)) @@ (2 :> Product(120000, 8)) @@
    (3 :> Product(19950, 30)) @@ (4 :> Product(50000, 5)) @@
    (5 :> Product(30000, 22)) @@ (6 :> Product(25000, 1))

\* a worker thread that serves no call: its position, the arguments of its
\* call, its locals (the list cart_items is bound to, named by the thread
\* that created it; the loop position; the quantity read for +=), its answer,
\* and the list it created for a cart (whether it has, whether another list
\* has taken its place in carts_db since, and what it holds from then on)
IdleThread ==
    [pc |-> "idle", user_id |-> 0, product_id |-> 0, quantity |-> 0,
     cart_items |-> 0, i |-> 0, loaded |-> 0, status |-> 0,
     created |-> FALSE, replaced |-> FALSE, orphaned |-> <<>>]

Init ==
    /\ products_db = SampleProducts
    /\ orders_db = <<>>
    /\ carts_db = <<>>
    /\ users_db = <<>>
    /\ next_user_id = 1
    /\ request = Request("none", 0, 0, 0, "", "")
    /\ response = Response(0, "", NoUser, <<>>, 0)
    /\ threads = [t \in Threads |-> IdleThread]

(***************************************************************************)
(* register_user                                                           *)
(***************************************************************************)
\* faulty variant: only usernames are compared
FirstClash_UsernameOnly(username, email) ==
    IF \E id \in DOMAIN users_db : users_db[id].username = username
    THEN "Username already registered"
    ELSE "none"

\* the scan answers for the first stored user that clashes; users are stored
\* in identifier order, and a user's username is compared before its email
FirstClash(username, email) ==
    LET clashing == {id \in DOMAIN users_db :
                        \/ users_db[id].username = username
                        \/ users_db[id].email = email}
        first == CHOOSE id \in clashing : \A other \in clashing : id <= other
    IN  IF clashing = {} THEN "none"
        ELSE IF users_db[first].username = username THEN "Username already registered"
        ELSE "Email already registered"

register_user(username, email, password) ==
    /\ request' = Request("register_user", 0, 0, 0, username, email)
    /\ IF FirstClash(username, email) # "none"
       THEN /\ response' = HTTPException(HTTP_400_BAD_REQUEST, FirstClash(username, email))
            /\ UNCHANGED <<users_db, next_user_id>>
       ELSE /\ users_db' = users_db @@
                   (next_user_id :> [id |-> next_user_id, username |-> username,
                                     email |-> email, password |-> password])
            /\ next_user_id' = next_user_id + 1
            /\ response' = Response(HTTP_201_CREATED, "", User(next_user_id, username, email),
                                    <<>>, 0)
    /\ UNCHANGED <<products_db, orders_db, carts_db>>

(***************************************************************************)
(* add_to_cart                                                             *)
(***************************************************************************)
UserExists_Anyone(user_id) == TRUE

\* the membership test both cart handlers open with
UserExists(user_id) == user_id \in DOMAIN users_db

\* position of the first line item for product_id, 0 when there is none
FindItem(cart_items, product_id) ==
    LET hits == {i \in 1..Len(cart_items) : cart_items[i].product_id = product_id}
    IN  IF hits = {} THEN 0 ELSE CHOOSE i \in hits : \A j \in hits : i <= j

\* faulty variants of AddItem: no merge; a merge that replaces the quantity;
\* a merge that moves the line item to the end
AddItem_AlwaysAppend(cart_items, product_id, quantity) ==
    Append(cart_items, ProductInOrder(product_id, quantity))

AddItem_Overwrite(cart_items, product_id, quantity) ==
    LET i == FindItem(cart_items, product_id)
    IN  IF i # 0
        THEN [cart_items EXCEPT ![i].quantity = quantity]
        ELSE Append(cart_items, ProductInOrder(product_id, quantity))

AddItem_MoveToEnd(cart_items, product_id, quantity) ==
    LET i == FindItem(cart_items, product_id)
    IN  IF i # 0
        THEN Append(SubSeq(cart_items, 1, i - 1) \o SubSeq(cart_items, i + 1, Len(cart_items)),
                    ProductInOrder(product_id, cart_items[i].quantity + quantity))
        ELSE Append(cart_items, ProductInOrder(product_id, quantity))

\* faulty variant: a line item merged down to nothing is taken out
AddItem_PruneEmpty(cart_items, product_id, quantity) ==
    LET i == FindItem(cart_items, product_id)
    IN  IF i = 0 THEN Append(cart_items, ProductInOrder(product_id, quantity))
        ELSE IF cart_items[i].quantity + quantity <= 0
        THEN SubSeq(cart_items, 1, i - 1) \o SubSeq(cart_items, i + 1, Len(cart_items))
        ELSE [cart_items EXCEPT ![i].quantity = @ + quantity]

\* the merge-or-append of the handler
AddItem(cart_items, product_id, quantity) ==
    LET i == FindItem(cart_items, product_id)
    IN  IF i # 0
        THEN [cart_items EXCEPT ![i].quantity = @ + quantity]
        ELSE Append(cart_items, ProductInOrder(product_id, quantity))

\* faulty variant: the last unit in stock cannot be added
NotEnoughStock_AtLeast(quantity, product) == quantity >= product.stock

NotEnoughStock(quantity, product) == quantity > product.stock

CartOf(user_id) == IF user_id \in DOMAIN carts_db THEN carts_db[user_id] ELSE <<>>

\* faulty variants of add_to_cart: the cart entry is created before the
\* product and the stock are checked; the stock is taken from the catalog;
\* the product is not looked up
add_to_cart_CreatesCartFirst(user_id, product_id, quantity) ==
    /\ request' = Request("add_to_cart", user_id, product_id, quantity, "", "")
    /\ IF ~UserExists(user_id)
       THEN /\ response' = HTTPException(HTTP_404_NOT_FOUND, "User not found")
            /\ UNCHANGED carts_db
       ELSE IF product_id \notin DOMAIN products_db
       THEN /\ response' = HTTPException(HTTP_404_NOT_FOUND, "Product not found")
            /\ carts_db' = [u \in DOMAIN carts_db \cup {user_id} |-> CartOf(u)]
       ELSE IF NotEnoughStock(quantity, products_db[product_id])
       THEN /\ response' = HTTPException(HTTP_400_BAD_REQUEST, "Not enough stock")
            /\ carts_db' = [u \in DOMAIN carts_db \cup {user_id} |-> CartOf(u)]
       ELSE /\ carts_db' = [u \in DOMAIN carts_db \cup {user_id} |->
                               IF u = user_id
                               THEN AddItem(CartOf(user_id), product_id, quantity)
                               ELSE carts_db[u]]
            /\ response' = Response(HTTP_200_OK, "Added", NoUser, <<>>, 0)
    /\ UNCHANGED <<products_db, orders_db, users_db, next_user_id>>

add_to_cart_TakesStock(user_id, product_id, quantity) ==
    /\ request' = Request("add_to_cart", user_id, product_id, quantity, "", "")
    /\ IF ~UserExists(user_id)
       THEN /\ response' = HTTPException(HTTP_404_NOT_FOUND, "User not found")
            /\ UNCHANGED <<carts_db, products_db>>
       ELSE IF product_id \notin DOMAIN products_db
       THEN /\ response' = HTTPException(HTTP_404_NOT_FOUND, "Product not found")
            /\ UNCHANGED <<carts_db, products_db>>
       ELSE IF NotEnoughStock(quantity, products_db[product_id])
       THEN /\ response' = HTTPException(HTTP_400_BAD_REQUEST, "Not enough stock")
            /\ UNCHANGED <<carts_db, products_db>>
       ELSE /\ carts_db' = [u \in DOMAIN carts_db \cup {user_id} |->
                               IF u = user_id
                               THEN AddItem(CartOf(user_id), product_id, quantity)
                               ELSE carts_db[u]]
            /\ products_db' = [products_db EXCEPT ![product_id].stock = @ - quantity]
            /\ response' = Response(HTTP_200_OK, "Added", NoUser, <<>>, 0)
    /\ UNCHANGED <<orders_db, users_db, next_user_id>>

add_to_cart_AnyProduct(user_id, product_id, quantity) ==
    /\ request' = Request("add_to_cart", user_id, product_id, quantity, "", "")
    /\ IF ~UserExists(user_id)
       THEN /\ response' = HTTPException(HTTP_404_NOT_FOUND, "User not found")
            /\ UNCHANGED carts_db
       ELSE IF /\ product_id \in DOMAIN products_db
               /\ NotEnoughStock(quantity, products_db[product_id])
       THEN /\ response' = HTTPException(HTTP_400_BAD_REQUEST, "Not enough stock")
            /\ UNCHANGED carts_db
       ELSE /\ carts_db' = [u \in DOMAIN carts_db \cup {user_id} |->
                               IF u = user_id
                               THEN AddItem(CartOf(user_id), product_id, quantity)
                               ELSE carts_db[u]]
            /\ response' = Response(HTTP_200_OK, "Added", NoUser, <<>>, 0)
    /\ UNCHANGED <<products_db, orders_db, users_db, next_user_id>>

add_to_cart(user_id, product_id, quantity) ==
    /\ request' = Request("add_to_cart", user_id, product_id, quantity, "", "")
    /\ IF ~UserExists(user_id)
       THEN /\ response' = HTTPException(HTTP_404_NOT_FOUND, "User not found")
            /\ UNCHANGED carts_db
       ELSE IF product_id \notin DOMAIN products_db
       THEN /\ response' = HTTPException(HTTP_404_NOT_FOUND, "Product not found")
            /\ UNCHANGED carts_db
       ELSE IF NotEnoughStock(quantity, products_db[product_id])
       THEN /\ response' = HTTPException(HTTP_400_BAD_REQUEST, "Not enough stock")
            /\ UNCHANGED carts_db
       ELSE /\ carts_db' = [u \in DOMAIN carts_db \cup {user_id} |->
                               IF u = user_id
                               THEN AddItem(CartOf(user_id), product_id, quantity)
                               ELSE carts_db[u]]
            /\ response' = Response(HTTP_200_OK, "Added", NoUser, <<>>, 0)
    /\ UNCHANGED <<products_db, orders_db, users_db, next_user_id>>

(***************************************************************************)
(* get_cart                                                                *)
(***************************************************************************)
\* faulty variant: reading the cart empties it
get_cart_Drains(user_id) ==
    /\ request' = Request("get_cart", user_id, 0, 0, "", "")
    /\ response' = IF CartOf(user_id) = <<>>
                   THEN HTTPException(HTTP_404_NOT_FOUND, "Cart not found for this user")
                   ELSE Response(HTTP_200_OK, "", NoUser, carts_db[user_id], 0)
    /\ carts_db' = [u \in DOMAIN carts_db |-> IF u = user_id THEN <<>> ELSE carts_db[u]]
    /\ UNCHANGED <<products_db, orders_db, users_db, next_user_id>>

get_cart(user_id) ==
    /\ request' = Request("get_cart", user_id, 0, 0, "", "")
    /\ response' = IF CartOf(user_id) = <<>>
                   THEN HTTPException(HTTP_404_NOT_FOUND, "Cart not found for this user")
                   ELSE Response(HTTP_200_OK, "", NoUser, carts_db[user_id], 0)
    /\ UNCHANGED <<products_db, orders_db, carts_db, users_db, next_user_id>>

(***************************************************************************)
(* checkout                                                                *)
(***************************************************************************)
\* faulty variants of the pricing loop: one unit per line item; line items
\* whose product is gone are passed over
RECURSIVE PriceLoop_IgnoreQuantity(_, _, _, _)
PriceLoop_IgnoreQuantity(cart_items, catalog, i, total) ==
    IF i > Len(cart_items) THEN [found |-> TRUE, total_price |-> total, product_id |-> 0]
    ELSE IF cart_items[i].product_id \notin DOMAIN catalog
    THEN [found |-> FALSE, total_price |-> 0, product_id |-> cart_items[i].product_id]
    ELSE PriceLoop_IgnoreQuantity(cart_items, catalog, i + 1,
                                  total + catalog[cart_items[i].product_id].price)

RECURSIVE PriceLoop_SkipMissing(_, _, _, _)
PriceLoop_SkipMissing(cart_items, catalog, i, total) ==
    IF i > Len(cart_items) THEN [found |-> TRUE, total_price |-> total, product_id |-> 0]
    ELSE IF cart_items[i].product_id \notin DOMAIN catalog
    THEN PriceLoop_SkipMissing(cart_items, catalog, i + 1, total)
    ELSE PriceLoop_SkipMissing(cart_items, catalog, i + 1,
                   total + catalog[cart_items[i].product_id].price * cart_items[i].quantity)

\* faulty variant: a line item asking for more than the stock stops the loop
RECURSIVE PriceLoop_StockChecked(_, _, _, _)
PriceLoop_StockChecked(cart_items, catalog, i, total) ==
    IF i > Len(cart_items) THEN [found |-> TRUE, total_price |-> total, product_id |-> 0]
    ELSE IF \/ cart_items[i].product_id \notin DOMAIN catalog
            \/ cart_items[i].quantity > catalog[cart_items[i].product_id].stock
    THEN [found |-> FALSE, total_price |-> 0, product_id |-> cart_items[i].product_id]
    ELSE PriceLoop_StockChecked(cart_items, catalog, i + 1,
                   total + catalog[cart_items[i].product_id].price * cart_items[i].quantity)

\* the pricing loop from line item i on, total being the sum so far: the
\* total of the whole cart, or the first line item whose product is gone
RECURSIVE PriceLoop(_, _, _, _)
PriceLoop(cart_items, catalog, i, total) ==
    IF i > Len(cart_items) THEN [found |-> TRUE, total_price |-> total, product_id |-> 0]
    ELSE IF cart_items[i].product_id \notin DOMAIN catalog
    THEN [found |-> FALSE, total_price |-> 0, product_id |-> cart_items[i].product_id]
    ELSE PriceLoop(cart_items, catalog, i + 1,
                   total + catalog[cart_items[i].product_id].price * cart_items[i].quantity)

\* faulty variant: a priced cart is cleared
checkout_ClearsCart(user_id) ==
    /\ request' = Request("checkout", user_id, 0, 0, "", "")
    /\ IF ~UserExists(user_id)
       THEN /\ response' = HTTPException(HTTP_404_NOT_FOUND, "User not found")
            /\ UNCHANGED carts_db
       ELSE IF CartOf(user_id) = <<>>
       THEN /\ response' = HTTPException(HTTP_404_NOT_FOUND, "Cart not found for this user.")
            /\ UNCHANGED carts_db
       ELSE LET priced == PriceLoop(carts_db[user_id], products_db, 1, 0)
            IN  IF ~priced.found
                THEN /\ response' = HTTPException(HTTP_404_NOT_FOUND,
                                                  "Product in cart not found")
                     /\ UNCHANGED carts_db
                ELSE /\ response' = Response(HTTP_200_OK, "", NoUser, carts_db[user_id],
                                             priced.total_price)
                     /\ carts_db' = [u \in DOMAIN carts_db \ {user_id} |-> carts_db[u]]
    /\ UNCHANGED <<products_db, orders_db, users_db, next_user_id>>

checkout(user_id) ==
    /\ request' = Request("checkout", user_id, 0, 0, "", "")
    /\ response' =
         IF ~UserExists(user_id)
         THEN HTTPException(HTTP_404_NOT_FOUND, "User not found")
         ELSE IF CartOf(user_id) = <<>>
         THEN HTTPException(HTTP_404_NOT_FOUND, "Cart not found for this user.")
         ELSE LET priced == PriceLoop(carts_db[user_id], products_db, 1, 0)
              IN  IF ~priced.found
                  THEN HTTPException(HTTP_404_NOT_FOUND, "Product in cart not found")
                  ELSE Response(HTTP_200_OK, "", NoUser, carts_db[user_id],
                                priced.total_price)
    /\ UNCHANGED <<products_db, orders_db, carts_db, users_db, next_user_id>>

(***************************************************************************)
(* The catalog is a collaborator the handlers only read; its owner removes *)
(* products, restocks and re-prices outside the handlers.                  *)
(***************************************************************************)
catalog_remove(product_id) ==
    /\ product_id \in DOMAIN products_db
    /\ products_db' = [p \in DOMAIN products_db \ {product_id} |-> products_db[p]]
    /\ UNCHANGED <<orders_db, carts_db, users_db, next_user_id, request, response>>

catalog_restock(product_id, stock) ==
    /\ product_id \in DOMAIN products_db
    /\ products_db[product_id].stock # stock
    /\ products_db' = [products_db EXCEPT ![product_id].stock = stock]
    /\ UNCHANGED <<orders_db, carts_db, users_db, next_user_id, request, response>>

catalog_reprice(product_id, price) ==
    /\ product_id \in DOMAIN products_db
    /\ products_db[product_id].price # price
    /\ products_db' = [products_db EXCEPT ![product_id].price = price]
    /\ UNCHANGED <<orders_db, carts_db, users_db, next_user_id, request, response>>

(***************************************************************************)
(* add_to_cart on a worker thread, one statement at a time.  A thread      *)
(* serves one call.  A Python list is an object: cart_items stays bound to *)
(* the list it was read from even when carts_db[user_id] is assigned a new *)
(* list.  Every list is created by some thread and is named by it; the     *)
(* content of the list a cart holds is in carts_db, the content of a list  *)
(* another list has replaced is kept with the thread that created it.      *)
(***************************************************************************)
\* the thread that created the list carts_db holds for user_id
CurrentMaker(user_id) ==
    CHOOSE c \in Threads :
        threads[c].created /\ ~threads[c].replaced /\ threads[c].user_id = user_id

\* the content of the list thread t has bound cart_items to
ListOf(t) ==
    LET c == threads[t].cart_items
    IN  IF threads[c].replaced THEN threads[c].orphaned
        ELSE carts_db[threads[c].user_id]

\* thread t moves on with its record changed to next, having given the list
\* cart_items is bound to the content items
WriteList(t, next, items) ==
    LET c == threads[t].cart_items
    IN  IF threads[c].replaced
        THEN /\ threads' = [x \in Threads |->
                               LET now == IF x = t THEN next ELSE threads[x]
                               IN  IF x = c THEN [now EXCEPT !.orphaned = items] ELSE now]
             /\ UNCHANGED carts_db
        ELSE /\ threads' = [threads EXCEPT ![t] = next]
             /\ carts_db' = [carts_db EXCEPT ![threads[c].user_id] = items]

\* the call arrives
thread_receive(t, user_id, product_id, quantity) ==
    /\ threads[t].pc = "idle"
    /\ threads' = [threads EXCEPT ![t] =
                      [@ EXCEPT !.pc = "validate", !.user_id = user_id,
                                !.product_id = product_id, !.quantity = quantity]]
    /\ UNCHANGED <<products_db, orders_db, carts_db, users_db, next_user_id,
                   request, response>>

\* lines 178-193: the user, the product and the stock
thread_validate(t) ==
    LET me == threads[t]
    IN  /\ me.pc = "validate"
        /\ threads' = [threads EXCEPT ![t] =
              IF ~UserExists(me.user_id) \/ me.product_id \notin DOMAIN products_db
              THEN [me EXCEPT !.pc = "done", !.status = HTTP_404_NOT_FOUND]
              ELSE IF NotEnoughStock(me.quantity, products_db[me.product_id])
              THEN [me EXCEPT !.pc = "done", !.status = HTTP_400_BAD_REQUEST]
              ELSE [me EXCEPT !.pc = "test_cart"]]
        /\ UNCHANGED <<products_db, orders_db, carts_db, users_db, next_user_id,
                       request, response>>

\* line 195: if add_request.user_id not in carts_db
thread_test_cart(t) ==
    LET me == threads[t]
    IN  /\ me.pc = "test_cart"
        /\ threads' = [threads EXCEPT ![t].pc =
              IF me.user_id \notin DOMAIN carts_db THEN "create_cart" ELSE "bind"]
        /\ UNCHANGED <<products_db, orders_db, carts_db, users_db, next_user_id,
                       request, response>>

\* line 196: carts_db[add_request.user_id] = []
thread_create_cart(t) ==
    LET me == threads[t]
    IN  /\ me.pc = "create_cart"
        /\ carts_db' = [u \in DOMAIN carts_db \cup {me.user_id} |->
                           IF u = me.user_id THEN <<>> ELSE carts_db[u]]
        /\ threads' = [x \in Threads |->
              IF x = t THEN [me EXCEPT !.pc = "bind", !.created = TRUE]
              ELSE IF /\ me.user_id \in DOMAIN carts_db
                      /\ x = CurrentMaker(me.user_id)
              THEN [threads[x] EXCEPT !.replaced = TRUE,
                                      !.orphaned = carts_db[me.user_id]]
              ELSE threads[x]]
        /\ UNCHANGED <<products_db, orders_db, users_db, next_user_id,
                       request, response>>

\* line 198: cart_items = carts_db[add_request.user_id], and the loop starts
thread_bind(t) ==
    LET me == threads[t]
    IN  /\ me.pc = "bind"
        /\ threads' = [threads EXCEPT ![t] =
              [me EXCEPT !.pc = "scan", !.cart_items = CurrentMaker(me.user_id),
                         !.i = 1]]
        /\ UNCHANGED <<products_db, orders_db, carts_db, users_db, next_user_id,
                       request, response>>

\* lines 202-203: the next item of the list, if any, and its product_id
thread_scan(t) ==
    LET me == threads[t]
    IN  /\ me.pc = "scan"
        /\ threads' = [threads EXCEPT ![t] =
              IF me.i > Len(ListOf(t)) THEN [me EXCEPT !.pc = "append"]
              ELSE IF ListOf(t)[me.i].product_id = me.product_id
              THEN [me EXCEPT !.pc = "load"]
              ELSE [me EXCEPT !.i = @ + 1]]
        /\ UNCHANGED <<products_db, orders_db, carts_db, users_db, next_user_id,
                       request, response>>

\* line 204, first half: item.quantity is read
thread_load(t) ==
    LET me == threads[t]
    IN  /\ me.pc = "load"
        /\ threads' = [threads EXCEPT ![t] =
              [me EXCEPT !.pc = "store", !.loaded = ListOf(t)[me.i].quantity]]
        /\ UNCHANGED <<products_db, orders_db, carts_db, users_db, next_user_id,
                       request, response>>

\* line 204, second half: the sum is stored in item.quantity; lines 205-215
thread_store(t) ==
    LET me == threads[t]
    IN  /\ me.pc = "store"
        /\ WriteList(t, [me EXCEPT !.pc = "done", !.status = HTTP_200_OK],
                     [ListOf(t) EXCEPT ![me.i].quantity = me.loaded + me.quantity])
        /\ UNCHANGED <<products_db, orders_db, users_db, next_user_id,
                       request, response>>

\* lines 208-215: the new line item is appended
thread_append(t) ==
    LET me == threads[t]
    IN  /\ me.pc = "append"
        /\ WriteList(t, [me EXCEPT !.pc = "done", !.status = HTTP_200_OK],
                     Append(ListOf(t), ProductInOrder(me.product_id, me.quantity)))
        /\ UNCHANGED <<products_db, orders_db, users_db, next_user_id,
                       request, response>>

(***************************************************************************)
(* Specifications.                                                         *)
(***************************************************************************)
\* the model stops adding to a line item at the bounds
WithinBounds(user_id, product_id, quantity) ==
    LET i == FindItem(CartOf(user_id), product_id)
        now == IF i = 0 THEN 0 ELSE CartOf(user_id)[i].quantity
    IN  now + quantity \in MinQuantity..MaxCartQuantity

\* the handlers alone: the program by itself never writes the catalog
Next ==
    \/ \E username \in Usernames, email \in Emails, password \in Passwords :
           register_user(username, email, password) /\ UNCHANGED threads
    \/ \E user_id \in UserIds, product_id \in ProductIds, quantity \in Quantities :
           /\ WithinBounds(user_id, product_id, quantity)
           /\ add_to_cart(user_id, product_id, quantity)
           /\ UNCHANGED threads
    \/ \E user_id \in UserIds : get_cart(user_id) /\ UNCHANGED threads
    \/ \E user_id \in UserIds : checkout(user_id) /\ UNCHANGED threads

Spec == Init /\ [][Next]_vars

\* one shopper, and the catalog changing under the handlers
NextCatalog ==
    \/ \E password \in Passwords :
           register_user("ama", "ama@example.com", password) /\ UNCHANGED threads
    \/ \E user_id \in 1..2, product_id \in ProductIds, quantity \in Quantities :
           /\ WithinBounds(user_id, product_id, quantity)
           /\ add_to_cart(user_id, product_id, quantity)
           /\ UNCHANGED threads
    \/ \E user_id \in 1..2 : get_cart(user_id) /\ UNCHANGED threads
    \/ \E user_id \in 1..2 : checkout(user_id) /\ UNCHANGED threads
    \/ \E product_id \in ProductIds : catalog_remove(product_id) /\ UNCHANGED threads
    \/ \E product_id \in ProductIds, stock \in 0..MaxStock :
           catalog_restock(product_id, stock) /\ UNCHANGED threads
    \/ \E product_id \in ProductIds :
           catalog_reprice(product_id, SalePrice) /\ UNCHANGED threads

SpecCatalog == Init /\ [][NextCatalog]_vars

\* one shopper registers, and the worker threads serve her add_to_cart calls
NextThreads ==
    \/ \E password \in Passwords :
           register_user("ama", "ama@example.com", password) /\ UNCHANGED threads
    \/ \E t \in Threads, product_id \in {1, 6}, quantity \in 1..MaxQuantity :
           thread_receive(t, 1, product_id, quantity)
    \/ \E t \in Threads : thread_validate(t)
    \/ \E t \in Threads : thread_test_cart(t)
    \/ \E t \in Threads : thread_create_cart(t)
    \/ \E t \in Threads : thread_bind(t)
    \/ \E t \in Threads : thread_scan(t)
    \/ \E t \in Threads : thread_load(t)
    \/ \E t \in Threads : thread_store(t)
    \/ \E t \in Threads : thread_append(t)

SpecThreads == Init /\ [][NextThreads]_vars

(***************************************************************************)
(* Vocabulary of the properties.                                           *)
(***************************************************************************)
\* a step in which a handler serves a request of kind op (the catalog owner's
\* steps are the ones that write products_db)
Serves(op) == request'.op = op /\ UNCHANGED products_db

NotFound(r) == r.status = HTTP_404_NOT_FOUND

InsufficientStock(r) == r.status = HTTP_400_BAD_REQUEST /\ r.detail = "Not enough stock"

Succeeded(r) == r.status \in {HTTP_200_OK, HTTP_201_CREATED}

\* a failure of a kind other than the two above
InvalidInput(r) == ~Succeeded(r) /\ ~NotFound(r) /\ ~InsufficientStock(r)

ProductIdsOf(cart_items) == [i \in 1..Len(cart_items) |-> cart_items[i].product_id]

\* quantity of user_id's line item for product_id in ledger, 0 without one
QuantityIn(ledger, user_id, product_id) ==
    IF user_id \notin DOMAIN ledger THEN 0
    ELSE LET hits == {i \in 1..Len(ledger[user_id]) :
                         ledger[user_id][i].product_id = product_id}
         IN  IF hits = {} THEN 0 ELSE ledger[user_id][CHOOSE i \in hits : TRUE].quantity

\* sum of unit price times quantity over the line items, last item first
RECURSIVE SumOfLines(_, _)
SumOfLines(cart_items, catalog) ==
    IF cart_items = <<>> THEN 0
    ELSE LET n == Len(cart_items)
         IN  SumOfLines(SubSeq(cart_items, 1, n - 1), catalog)
               + cart_items[n].quantity * catalog[cart_items[n].product_id].price

(***************************************************************************)
(* C1: in every reachable state no cart holds two line items with the same *)
(* product identifier.                                                     *)
(***************************************************************************)
C1_NoDuplicateLineItems ==
    \A u \in DOMAIN carts_db :
        \A i, j \in 1..Len(carts_db[u]) :
            carts_db[u][i].product_id = carts_db[u][j].product_id => i = j

\* an add has just merged into the second of two line items
C1_Witness ==
    /\ request.op = "add_to_cart" /\ Succeeded(response)
    /\ request.user_id \in DOMAIN carts_db
    /\ Len(carts_db[request.user_id]) = 2
    /\ carts_db[request.user_id][2].product_id = request.product_id
    /\ carts_db[request.user_id][2].quantity # request.quantity

(***************************************************************************)
(* C2: a successful AddToCart(U,P,q1) for a user without a cart leaves the *)
(* cart with the single line item (P,q1), and a successful AddToCart(U,P,  *)
(* q2) on that cart leaves the single line item (P,q1+q2).                 *)
(***************************************************************************)
C2_MergeAddsQuantities ==
    [][(Serves("add_to_cart") /\ Succeeded(response'))
       => LET u == request'.user_id
              p == request'.product_id
              q2 == request'.quantity
          IN  /\ u \notin DOMAIN carts_db
                   => carts_db'[u] = <<ProductInOrder(p, q2)>>
              /\ (u \in DOMAIN carts_db /\ Len(carts_db[u]) = 1
                     /\ carts_db[u][1].product_id = p)
                   => carts_db'[u]
                        = <<ProductInOrder(p, carts_db[u][1].quantity + q2)>>]_vars

\* the second of two adds of the same product has been served
C2_Witness ==
    /\ request.op = "add_to_cart" /\ Succeeded(response)
    /\ request.user_id \in DOMAIN carts_db
    /\ Len(carts_db[request.user_id]) = 1
    /\ carts_db[request.user_id][1].product_id = request.product_id
    /\ request.quantity > 0
    /\ carts_db[request.user_id][1].quantity > request.quantity

(***************************************************************************)
(* C3: for an existing user and an existing product, AddToCart fails with  *)
(* InsufficientStock exactly when the requested quantity is greater than   *)
(* the product's stock at the time of the call, whatever the cart holds.   *)
(***************************************************************************)
C3_StockGate ==
    [][(/\ Serves("add_to_cart")
        /\ request'.user_id \in DOMAIN users_db
        /\ request'.product_id \in DOMAIN products_db)
       => /\ InsufficientStock(response')
               <=> request'.quantity > products_db[request'.product_id].stock
          /\ ~InsufficientStock(response') => Succeeded(response')]_vars

\* an add was accepted although the cart then holds more than the stock
C3_Witness ==
    /\ request.op = "add_to_cart" /\ Succeeded(response)
    /\ request.product_id \in DOMAIN products_db
    /\ request.quantity > 0
    /\ QuantityIn(carts_db, request.user_id, request.product_id)
         > products_db[request.product_id].stock
    /\ request.quantity <= products_db[request.product_id].stock

(***************************************************************************)
(* C4: in every reachable state every line item of every cart has a        *)
(* quantity greater than zero.                                             *)
(***************************************************************************)
C4_QuantitiesPositive ==
    \A u \in DOMAIN carts_db :
        \A i \in 1..Len(carts_db[u]) : carts_db[u][i].quantity > 0

(***************************************************************************)
(* C5: AddToCart with a quantity of zero or less is rejected as invalid    *)
(* input and leaves the cart ledger as it was.                             *)
(***************************************************************************)
C5_NonPositiveRejected ==
    [][(/\ Serves("add_to_cart")
        /\ request'.quantity <= 0
        /\ request'.user_id \in DOMAIN users_db
        /\ request'.product_id \in DOMAIN products_db)
       => InvalidInput(response') /\ UNCHANGED carts_db]_vars

(***************************************************************************)
(* C6: no step lowers the quantity of any user's line item for any         *)
(* product.                                                                *)
(***************************************************************************)
C6_QuantityNeverDecreases ==
    [][\A u \in UserIds, p \in ProductIds :
          QuantityIn(carts_db', u, p) >= QuantityIn(carts_db, u, p)]_vars

(***************************************************************************)
(* C7: a successful Checkout returns the sum, over the line items of the   *)
(* cart, of quantity times the unit price the catalog holds at the time of *)
(* the call.                                                               *)
(***************************************************************************)
C7_CheckoutTotal ==
    [][(Serves("checkout") /\ Succeeded(response'))
       => response'.total_price = SumOfLines(carts_db[request'.user_id], products_db)]_vars

\* a checkout priced two line items, one of them at a changed unit price
C7_Witness ==
    /\ request.op = "checkout" /\ Succeeded(response)
    /\ Len(response.cart_items) = 2
    /\ \A i \in 1..2 : response.cart_items[i].quantity > 0
    /\ \E i \in 1..2 :
          LET p == response.cart_items[i].product_id
          IN  p \in DOMAIN products_db /\ products_db[p].price # SampleProducts[p].price
    /\ response.total_price > 0

(***************************************************************************)
(* C8: GetCart and Checkout return the line items in the stored order, and *)
(* an add keeps every product at its position: a merge leaves the order of *)
(* products as it is, a first add puts the product last.                   *)
(***************************************************************************)
C8_InsertionOrder ==
    [][/\ \A u \in DOMAIN carts_db :
             /\ u \in DOMAIN carts_db'
             /\ \/ ProductIdsOf(carts_db'[u]) = ProductIdsOf(carts_db[u])
                \/ /\ Serves("add_to_cart")
                   /\ FindItem(carts_db[u], request'.product_id) = 0
                   /\ ProductIdsOf(carts_db'[u])
                        = Append(ProductIdsOf(carts_db[u]), request'.product_id)
       /\ (Succeeded(response') /\ (Serves("get_cart") \/ Serves("checkout")))
             => response'.cart_items = carts_db[request'.user_id]]_vars

\* a cart of two products, the first added of them merged into last, is read
C8_Witness ==
    /\ request.op \in {"get_cart", "checkout"} /\ Succeeded(response)
    /\ Len(response.cart_items) = 2
    /\ response.cart_items[1].quantity = MaxCartQuantity
    /\ response.cart_items[1].product_id = 6

(***************************************************************************)
(* C9: AddToCart, GetCart and Checkout answer NotFound to a user           *)
(* identifier that is not registered, and no cart is recorded for one.     *)
(***************************************************************************)
C9_UnknownUserNotFound ==
    /\ (/\ request.op \in {"add_to_cart", "get_cart", "checkout"}
        /\ request.user_id \notin DOMAIN users_db)
          => NotFound(response)
    /\ DOMAIN carts_db \subseteq DOMAIN users_db

\* an unregistered user is turned away while another user's cart exists
C9_Witness ==
    /\ request.op \in {"add_to_cart", "get_cart", "checkout"}
    /\ request.user_id \notin DOMAIN users_db
    /\ NotFound(response)
    /\ DOMAIN carts_db # {}

(***************************************************************************)
(* C10: Checkout of a cart with a line item whose product is not in the    *)
(* catalog fails with NotFound and returns neither line items nor a total, *)
(* wherever the line item stands in the cart.                              *)
(***************************************************************************)
C10_MissingProductFailsCheckout ==
    [][(/\ Serves("checkout")
        /\ \E i \in 1..Len(CartOf(request'.user_id)) :
              CartOf(request'.user_id)[i].product_id \notin DOMAIN products_db)
       => /\ NotFound(response')
          /\ response'.cart_items = <<>>
          /\ response'.total_price = 0]_vars

\* the checkout failed on the second line item, the first being in the catalog
C10_Witness ==
    /\ request.op = "checkout" /\ NotFound(response)
    /\ request.user_id \in DOMAIN carts_db
    /\ Len(carts_db[request.user_id]) = 2
    /\ carts_db[request.user_id][1].product_id \in DOMAIN products_db
    /\ carts_db[request.user_id][1].quantity > 0
    /\ carts_db[request.user_id][2].product_id \notin DOMAIN products_db

(***************************************************************************)
(* C11: Checkout succeeds exactly when the user is registered, has a cart  *)
(* with at least one line item, and every line item's product is in the    *)
(* catalog; the stock figures play no part.                                *)
(***************************************************************************)
C11_CheckoutSucceedsIff ==
    [][Serves("checkout")
       => LET u == request'.user_id
          IN  Succeeded(response')
                <=> /\ u \in DOMAIN users_db
                    /\ CartOf(u) # <<>>
                    /\ \A i \in 1..Len(CartOf(u)) :
                          CartOf(u)[i].product_id \in DOMAIN products_db]_vars

\* a checkout went through for a line item asking for more than the stock
C11_Witness ==
    /\ request.op = "checkout" /\ Succeeded(response)
    /\ \E i \in 1..Len(response.cart_items) :
          LET item == response.cart_items[i]
          IN  /\ item.product_id \in DOMAIN products_db
              /\ item.quantity > products_db[item.product_id].stock

(***************************************************************************)
(* C12: a Checkout call, successful or not, leaves the carts, the catalog, *)
(* the user directory, the identifier counter and the order store as they  *)
(* were.                                                                   *)
(***************************************************************************)
C12_CheckoutChangesNothing ==
    [][request'.op = "checkout"
       => UNCHANGED <<carts_db, products_db, users_db, next_user_id, orders_db>>]_vars

\* a successful checkout has been served and the cart it priced is still there
C12_Witness ==
    /\ request.op = "checkout" /\ Succeeded(response)
    /\ request.user_id \in DOMAIN carts_db
    /\ carts_db[request.user_id] = response.cart_items
    /\ Len(response.cart_items) = 2
    /\ orders_db = <<>>

(***************************************************************************)
(* C13: an AddToCart call that fails leaves the cart ledger as it was; it  *)
(* creates no cart entry.                                                  *)
(***************************************************************************)
C13_FailedAddChangesNoCart ==
    [][(Serves("add_to_cart") /\ ~Succeeded(response'))
       => UNCHANGED carts_db]_vars

\* a registered user without a cart was refused for stock and has no cart
C13_Witness ==
    /\ request.op = "add_to_cart" /\ InsufficientStock(response)
    /\ request.user_id \in DOMAIN users_db
    /\ request.user_id \notin DOMAIN carts_db

(***************************************************************************)
(* C14: a successful AddToCart(U,P,q) leaves the catalog, the user         *)
(* directory and every other user's cart as they were, and in U's cart     *)
(* every line item for a product other than P keeps its place and content. *)
(***************************************************************************)
C14_AddChangesOneLineItem ==
    [][(request'.op = "add_to_cart" /\ Succeeded(response'))
       => LET u == request'.user_id
              p == request'.product_id
          IN  /\ UNCHANGED <<products_db, users_db, next_user_id, orders_db>>
              /\ DOMAIN carts_db' = DOMAIN carts_db \cup {u}
              /\ \A other \in DOMAIN carts_db \ {u} : carts_db'[other] = carts_db[other]
              /\ \A i \in 1..Len(CartOf(u)) :
                    CartOf(u)[i].product_id # p => carts_db'[u][i] = CartOf(u)[i]
              /\ \A i \in 1..Len(carts_db'[u]) :
                    carts_db'[u][i].product_id # p
                        => i <= Len(CartOf(u)) /\ carts_db'[u][i] = CartOf(u)[i]]_vars

\* an add into a cart of two line items was served while another cart exists
C14_Witness ==
    /\ request.op = "add_to_cart" /\ Succeeded(response)
    /\ Cardinality(DOMAIN carts_db) = 2
    /\ Len(carts_db[request.user_id]) = 2
    /\ carts_db[request.user_id][1].product_id = request.product_id
    /\ carts_db[request.user_id][1].quantity # request.quantity

(***************************************************************************)
(* C15: add_to_cart calls served at the same time lose no update: once the *)
(* calls are over, if two or more of them for the same user and product    *)
(* succeeded, the user's cart holds exactly one line item for the product, *)
(* and its quantity is the sum of the quantities they added (the carts are *)
(* empty before the first call).                                           *)
(***************************************************************************)
RECURSIVE SumOfQuantities(_)
SumOfQuantities(calls) ==
    IF calls = {} THEN 0
    ELSE LET t == CHOOSE x \in calls : TRUE
         IN  threads[t].quantity + SumOfQuantities(calls \ {t})

C15_NoLostUpdate ==
    (\A t \in Threads : threads[t].pc = "done")
    => \A u \in UserIds, p \in ProductIds :
          LET calls == {t \in Threads : /\ threads[t].status = HTTP_200_OK
                                        /\ threads[t].user_id = u
                                        /\ threads[t].product_id = p}
              lines == {i \in 1..Len(CartOf(u)) : CartOf(u)[i].product_id = p}
          IN  Cardinality(calls) >= 2
                => /\ Cardinality(lines) = 1
                   /\ \A i \in lines : CartOf(u)[i].quantity = SumOfQuantities(calls)

(***************************************************************************)
(* C16: GetCart answers NotFound exactly when the user has no cart or an   *)
(* empty one; otherwise it returns the stored line items as they are; in   *)
(* both cases it changes no state.                                         *)
(***************************************************************************)
C16_GetCart ==
    [][request'.op = "get_cart"
       => LET u == request'.user_id
          IN  /\ NotFound(response') <=> (u \notin DOMAIN carts_db \/ carts_db[u] = <<>>)
              /\ ~NotFound(response')
                    => Succeeded(response') /\ response'.cart_items = carts_db[u]
              /\ UNCHANGED <<carts_db, products_db, users_db, next_user_id,
                             orders_db>>]_vars

\* a cart of two line items has been returned
C16_Witness ==
    /\ request.op = "get_cart" /\ Succeeded(response)
    /\ Len(response.cart_items) = 2
    /\ carts_db[request.user_id] = response.cart_items

(***************************************************************************)
(* C17: no two registered users share a username, an email or an           *)
(* identifier; a register call with a username or an email already         *)
(* registered fails, and a failed register call leaves the user directory  *)
(* and the identifier counter as they were.                                *)
(***************************************************************************)
UsersUnique(directory) ==
    \A a, b \in DOMAIN directory :
        a # b => /\ directory[a].username # directory[b].username
                 /\ directory[a].email # directory[b].email
                 /\ directory[a].id # directory[b].id

C17_RegisterKeepsUsersUnique ==
    [][/\ UsersUnique(users_db')
       /\ request'.op = "register_user"
             => /\ (\E id \in DOMAIN users_db :
                        \/ users_db[id].username = request'.username
                        \/ users_db[id].email = request'.email)
                     => ~Succeeded(response')
                /\ ~Succeeded(response') => UNCHANGED <<users_db, next_user_id>>]_vars

\* with two users registered, a third registration failed on its email
C17_Witness ==
    /\ request.op = "register_user"
    /\ response.status = HTTP_400_BAD_REQUEST
    /\ response.detail = "Email already registered"
    /\ Cardinality(DOMAIN users_db) = 2

(***************************************************************************)
(* C18: in every reachable state every cart in the ledger holds at least   *)
(* one line item.                                                          *)
(***************************************************************************)
C18_NoEmptyCart == \A u \in DOMAIN carts_db : carts_db[u] # <<>>

\* a merge has brought the only line item of a cart down to nothing
C18_Witness ==
    /\ request.op = "add_to_cart" /\ Succeeded(response)
    /\ request.quantity < 0
    /\ Len(carts_db[request.user_id]) = 1
    /\ carts_db[request.user_id][1].quantity = 0

(***************************************************************************)
(* C19: with the catalog left alone, in every reachable state every cart   *)
(* belongs to a registered user, every line item names a product of the    *)
(* catalog, and no Checkout has failed for a missing product.              *)
(***************************************************************************)
C19_CartsReferToKnownEntities ==
    /\ DOMAIN carts_db \subseteq DOMAIN users_db
    /\ \A u \in DOMAIN carts_db :
          \A i \in 1..Len(carts_db[u]) : carts_db[u][i].product_id \in DOMAIN products_db
    /\ request.op = "checkout"
          => response.detail # "Product in cart not found"

\* both users hold carts and a checkout has just priced one of them
C19_Witness ==
    /\ request.op = "checkout" /\ Succeeded(response)
    /\ Cardinality(DOMAIN carts_db) = 2
    /\ \A u \in DOMAIN carts_db : Len(carts_db[u]) = 2

====
